---- MODULE Spec2Model ----
(***************************************************************************)
(* Model of generate.py (jart/includeme): the generator of the symbol ->   *)
(* header indexes includeme-index-c.el and includeme-index-cpp.el.         *)
(*                                                                         *)
(* Symbol names and link identifiers are Python strings; they are modelled *)
(* as tuples of character codes so that startswith, slicing, rindex,       *)
(* concatenation and the lexicographic order of sort() are computed and    *)
(* not assumed.  Header names are only compared for equality and are       *)
(* modelled as TLA+ strings.  None and '' (both false in `if not x`) are   *)
(* the empty tuple for names and links, and "" for headers.                *)
(***************************************************************************)
EXTENDS Integers, Sequences, FiniteSets, TLC

VARIABLES
    pc,         \* position of main(): the loop or statement about to run
    includes,   \* parse_man: the running set of headers of the current page
    func,       \* main, line 125: the fact yielded for the line read last
    man_syms,   \* main: man-page table, name -> set of headers
    c_syms,     \* main: dialect-1 table (sym dicts, after line 217 header sets)
    cpp_syms,   \* main: dialect-2 table (sym dicts, after line 218 entries)
    links,      \* main: link -> the syms that point at it (backlinks)
    pages,      \* the pages read, kept while another invocation follows
    todo,       \* the items the running for-loop has still to visit
    nread,      \* how many lines / nodes the running load loop has read
    stderr,     \* the diagnostics written by the latest step
    lost,       \* the 'discard' diagnostics written so far: <<lang, name>>
    out_c,      \* includeme-index-c.el: the tree written, NoFile before
    out_cpp,    \* includeme-index-cpp.el
    again,      \* how many more times main() will be invoked on these inputs
    loaded,     \* the tables as loaded, kept while another invocation follows
    first       \* the final indexes of the earlier invocation, kept to compare

vars == <<pc, includes, func, man_syms, c_syms, cpp_syms, links, pages, todo,
          nread, stderr, lost, out_c, out_cpp, again, loaded, first>>

----------------------------------------------------------------------------
(* Bounds of the model *)

\* lines read from man pages in one run
MaxLines == 4
\* nodes read from each catalog document in one run
MaxNodes == 3
\* entries of a mapping handed to make_happy_tree on its own (SpecTree)
MaxTree == 6

----------------------------------------------------------------------------
(* Strings as tuples of character codes *)

\* "f", "g", "n::f", "std::f", "std::g" and the malformed "f("
nF    == <<102>>
nG    == <<103>>
nNsF  == <<110, 58, 58, 102>>
nStdF == <<115, 116, 100, 58, 58, 102>>
nStdG == <<115, 116, 100, 58, 58, 103>>
nParen == <<102, 40>>
\* 'std::', '::', '(' , '/' and 'cpp/'
sStd    == <<115, 116, 100, 58, 58>>
sColons == <<58, 58>>
sSlash  == <<47>>
sCpp    == <<99, 112, 112, 47>>
\* the links "c/f", "cpp/f", and "f" (no directory part)
lC    == <<99, 47, 102>>
lCpp  == <<99, 112, 112, 47, 102>>
lBare == <<102>>
\* None, for a name or a link
None == <<>>

\* str.startswith
StartsWith(str, prefix) ==
    /\ Len(str) >= Len(prefix)
    /\ SubSeq(str, 1, Len(prefix)) = prefix

\* str[k:] (k counted from 0 as in Python)
SliceFrom(str, k) == SubSeq(str, k + 1, Len(str))

\* `needle in str`
Contains(str, needle) ==
    \E i \in 1..Len(str) :
        /\ i + Len(needle) - 1 <= Len(str)
        /\ SubSeq(str, i, i + Len(needle) - 1) = needle

\* str.rindex(needle): the highest 0-based index where needle occurs;
\* -1 stands for the ValueError raised when there is none
RIndex(str, needle) ==
    LET at == {i \in 1..Len(str) :
                 /\ i + Len(needle) - 1 <= Len(str)
                 /\ SubSeq(str, i, i + Len(needle) - 1) = needle}
    IN  IF at = {} THEN -1
        ELSE (CHOOSE i \in at : \A j \in at : j <= i) - 1

\* Python's < on strings: code point by code point, a proper prefix first
StrLess(a, b) ==
    \/ /\ Len(a) < Len(b)
       /\ SubSeq(b, 1, Len(a)) = a
    \/ \E i \in 1..Len(a) :
          /\ i <= Len(b)
          /\ SubSeq(a, 1, i - 1) = SubSeq(b, 1, i - 1)
          /\ a[i] < b[i]

----------------------------------------------------------------------------
(* Tables (Python dicts) as functions with a finite domain *)

EmptyDict == << >>

Put(dict, key, val) ==
    [k \in DOMAIN dict \cup {key} |-> IF k = key THEN val ELSE dict[k]]

\* The permutations of a finite set, as sequences: the orders in which an
\* unordered container (dict, set) can be iterated
RECURSIVE Perms(_)
Perms(S) ==
    IF S = {} THEN {<< >>}
    ELSE UNION {{<<x>> \o p : p \in Perms(S \ {x})} : x \in S}

----------------------------------------------------------------------------
(* shadows *)

shadows ==
    {<<"assert.h", "cassert">>, <<"complex.h", "ccomplex">>,
     <<"ctype.h", "cctype">>, <<"errno.h", "cerrno">>,
     <<"fenv.h", "cfenv">>, <<"float.h", "cfloat">>,
     <<"inttypes.h", "cinttypes">>, <<"limits.h", "climits">>,
     <<"locale.h", "clocale">>, <<"math.h", "cmath">>,
     <<"setjmp.h", "csetjmp">>, <<"signal.h", "csignal">>,
     <<"stdalign.h", "cstdalign">>, <<"stdarg.h", "cstdarg">>,
     <<"stdbool.h", "cstdbool">>, <<"stddef.h", "cstddef">>,
     <<"stdint.h", "cstdint">>, <<"stdio.h", "cstdio">>,
     <<"stdlib.h", "cstdlib">>, <<"string.h", "cstring">>,
     <<"tgmath.h", "ctgmath">>, <<"time.h", "ctime">>,
     <<"wchar.h", "cwchar">>, <<"wctype.h", "cwctype">>}

\* set(shadows.keys())
ShadowKeys == {p[1] : p \in shadows}

\* shadows.get(hdr, hdr)
ShadowGet(hdr) ==
    IF hdr \in ShadowKeys
    THEN (CHOOSE p \in shadows : p[1] = hdr)[2]
    ELSE hdr

\* set(shadows.get(hdr, hdr) for hdr in hdrs)
ShadowSet(hdrs) == {ShadowGet(hdr) : hdr \in hdrs}

----------------------------------------------------------------------------
(* Input universes: what the man pages, the two catalog documents and the  *)
(* page store may hold.                                                    *)

Headers == {"math.h", "foo.h"}

\* A man-page line, by what parse_man looks at: how it starts (".B ",
\* '.BR "#inc', another ".B..." macro such as ".BI ", anything else), what
\* '#include <(.*?)>' finds in it, the name the declaration pattern finds
\* (None: no match) and whether it holds the word DESCRIPTION.
ManNames == {nF}
Lines ==
    [prefix : {"B", "BR", "BI", "SH"},
     inc    : {{}} \cup {{h} : h \in Headers},
     fn     : {None} \cup ManNames,
     desc   : BOOLEAN]

\* the nodes of index-functions-c.xml: name, tag, link (None: no attribute)
CNodes ==
    [name : {nF, nStdF, nParen}, tag : {"function"},
     link : {None, lBare, lCpp, lC}]

\* the nodes of index-functions-cpp.xml; in this universe a node that
\* carries an alias is a typedef without a link of its own
CppNodes ==
    [name : {nF, nStdF, nNsF, nParen}, tag : {"function"},
     alias : {None}, link : {None, lCpp, lC}]
    \cup
    [name : {nF, nStdF, nNsF}, tag : {"typedef"},
     alias : {nStdF, nNsF}, link : {None}]

\* A detail page, by what main looks at: whether the file exists and what
\* 'Defined in header.+?;(.+?)&' captures in it ("" : no match).
NoPage == [exists |-> FALSE, token |-> ""]
PageBodies ==
    {NoPage} \cup [exists : {TRUE}, token : {"", "math.h", "cmath", "&lt;"}]

\* header.replace('&lt;', '') on the tokens of PageBodies
StripLt(token) ==
    CASE token = "&lt;" -> ""
      [] OTHER -> token

----------------------------------------------------------------------------
(* Diagnostics (lines on sys.stderr) *)

Diag(msg, name) == [msg |-> msg, name |-> name, have |-> {}, got |-> {}]
Conflict(name, have, got) ==
    [msg |-> "does have or", name |-> name, have |-> have, got |-> got]

NoFact == [name |-> None, includes |-> {}]
NoFile == <<"no file">>
NoArtifacts == [kept |-> FALSE, c_syms |-> EmptyDict, cpp_syms |-> EmptyDict]

----------------------------------------------------------------------------
(* parse_man, one line at a time *)

\* a faulty variant: a declaration found before any #include is yielded too
ParseLineNoCheck(incs, line) ==
    LET inc1 == IF line.prefix \in {"B", "BR"} THEN incs \cup line.inc
                ELSE incs
        found == line.prefix \in {"B", "BR", "BI"} /\ line.fn # None
    IN  [includes |-> inc1,
         yield    |-> IF found THEN [name |-> line.fn, includes |-> inc1]
                      ELSE NoFact,
         dropped  |-> {},
         stop     |-> line.desc]

\* The body of parse_man's loop for one line: the new running set, the fact
\* yielded (NoFact: none), the diagnostic written, and whether the scan of
\* the page stops.  `continue` on a dropped fact skips the DESCRIPTION test.
ParseLine(incs, line) ==
    LET inc1 == IF line.prefix \in {"B", "BR"} THEN incs \cup line.inc
                ELSE incs
        found == line.prefix \in {"B", "BR", "BI"} /\ line.fn # None
    IN  [includes |-> inc1,
         yield    |-> IF found /\ inc1 # {}
                      THEN [name |-> line.fn, includes |-> inc1]
                      ELSE NoFact,
         dropped  |-> IF found /\ inc1 = {}
                      THEN {Diag("no includes for", line.fn)} ELSE {},
         stop     |-> IF found /\ inc1 = {} THEN FALSE ELSE line.desc]

\* a faulty variant: the fact seen last wins
MergeFactLast(syms, fact) == Put(syms, fact.name, fact.includes)

\* main, lines 126-131: the table after a yielded fact
MergeFact(syms, fact) ==
    IF fact.name \in DOMAIN syms THEN syms
    ELSE Put(syms, fact.name, fact.includes)

\* main, lines 126-129: what is written for a yielded fact
MergeReport(syms, fact) ==
    IF fact.name \in DOMAIN syms /\ fact.includes # syms[fact.name]
    THEN {Conflict(fact.name, syms[fact.name], fact.includes)}
    ELSE {}

----------------------------------------------------------------------------
(* Initial state: main() has set up its empty tables (lines 118-121) *)

Init ==
    /\ pc = "man"
    /\ includes = {}
    /\ func = NoFact
    /\ man_syms = EmptyDict
    /\ c_syms = EmptyDict
    /\ cpp_syms = EmptyDict
    /\ links = EmptyDict
    /\ pages = EmptyDict
    /\ todo = {}
    /\ nread = 0
    /\ stderr = {}
    /\ lost = {}
    /\ out_c = NoFile
    /\ out_cpp = NoFile
    /\ again = 0
    /\ loaded = NoFile
    /\ first = NoArtifacts

----------------------------------------------------------------------------
(* Loading the man pages (lines 124-131) *)

\* one more line of the current page is read and, if it yields a fact, merged
ManLine ==
    /\ pc = "man"
    /\ nread < MaxLines
    /\ \E line \in Lines :
         LET r == ParseLine(includes, line)
         IN  /\ includes' = IF r.stop THEN {} ELSE r.includes
             /\ IF r.yield # NoFact
                THEN /\ func' = r.yield
                     /\ man_syms' = MergeFact(man_syms, r.yield)
                     /\ stderr' = MergeReport(man_syms, r.yield)
                ELSE /\ func' = NoFact
                     /\ man_syms' = man_syms
                     /\ stderr' = r.dropped
    /\ nread' = nread + 1
    /\ UNCHANGED <<pc, c_syms, cpp_syms, links, pages, todo, lost, out_c,
                   out_cpp, again, loaded, first>>

\* the current page ends without a DESCRIPTION line; the next page starts
\* with a fresh parse_man
ManEndPage ==
    /\ pc = "man"
    /\ includes # {}
    /\ includes' = {}
    /\ stderr' = {}
    /\ UNCHANGED <<pc, func, man_syms, c_syms, cpp_syms, links, pages, todo,
                   nread, lost, out_c, out_cpp, again, loaded, first>>

\* no page is left
ManDone ==
    /\ pc = "man"
    /\ pc' = "c_load"
    /\ includes' = {}
    /\ func' = NoFact
    /\ nread' = 0
    /\ stderr' = {}
    /\ UNCHANGED <<man_syms, c_syms, cpp_syms, links, pages, todo, lost,
                   out_c, out_cpp, again, loaded, first>>

----------------------------------------------------------------------------
(* Loading the two catalogs (lines 133-160) *)

\* the dict built for a node (lines 145-147, 156-159); 'header' is not set
\* yet, which sym.get('header') reads like an empty one
Sym(name, tag, alias, link) ==
    [name |-> name, type |-> <<tag>>, alias |-> alias, link |-> link,
     header |-> ""]

\* links.setdefault(link, []).append(sym); a sym is referred to by its
\* dialect and name
AddBacklink(lnks, link, ref) ==
    Put(lnks, link, (IF link \in DOMAIN lnks THEN lnks[link] ELSE {}) \cup {ref})

\* lines 136-144: the nodes of the C document that are skipped
CSkipped(node) ==
    \/ node.link = None
    \/ ~Contains(node.link, sSlash)
    \/ StartsWith(node.link, sCpp)
    \/ Contains(node.name, <<40>>)

CLoadNode ==
    /\ pc = "c_load"
    /\ nread < MaxNodes
    /\ \E node \in CNodes :
         IF CSkipped(node)
         THEN UNCHANGED <<c_syms, links>>
         ELSE /\ c_syms' = Put(c_syms, node.name,
                               Sym(node.name, node.tag, None, node.link))
              /\ links' = AddBacklink(links, node.link, <<"C", node.name>>)
    /\ nread' = nread + 1
    /\ UNCHANGED <<pc, includes, func, man_syms, cpp_syms, pages, todo,
                   stderr, lost, out_c, out_cpp, again, loaded, first>>

CDone ==
    /\ pc = "c_load"
    /\ pc' = "cpp_load"
    /\ nread' = 0
    /\ UNCHANGED <<includes, func, man_syms, c_syms, cpp_syms, links, pages,
                   todo, stderr, lost, out_c, out_cpp, again, loaded, first>>

CppLoadNode ==
    /\ pc = "cpp_load"
    /\ nread < MaxNodes
    /\ \E node \in CppNodes :
         IF Contains(node.name, <<40>>)
         THEN UNCHANGED cpp_syms
         ELSE cpp_syms' = Put(cpp_syms, node.name,
                              Sym(node.name, node.tag, node.alias, node.link))
    /\ nread' = nread + 1
    /\ UNCHANGED <<pc, includes, func, man_syms, c_syms, links, pages, todo,
                   stderr, lost, out_c, out_cpp, again, loaded, first>>

\* the document is read; the second pass starts over cpp_syms.values()
CppDone ==
    /\ pc = "cpp_load"
    /\ pc' = "alias"
    /\ todo' = DOMAIN cpp_syms
    /\ nread' = 0
    /\ loaded' = IF again > 0
                 THEN [c_syms |-> c_syms, cpp_syms |-> cpp_syms, links |-> links]
                 ELSE loaded
    /\ UNCHANGED <<includes, func, man_syms, c_syms, cpp_syms, links, pages,
                   stderr, lost, out_c, out_cpp, again, first>>

----------------------------------------------------------------------------
(* Second pass: typedef aliases (lines 163-168) *)

\* lines 166-168 for the sym called name, whose alias target is loaded
ResolveAlias(syms, name) ==
    LET sym   == syms[name]
        other == syms[sym.alias]
    IN  [syms EXCEPT ![name].type = sym.type \o other.type,
                     ![name].link = other.link]

\* one iteration of the loop, over the syms in any order; a target that is
\* not in the table raises KeyError and ends the run
AliasStep ==
    /\ pc = "alias"
    /\ \E name \in todo :
         /\ todo' = todo \ {name}
         /\ IF cpp_syms[name].alias = None
            THEN UNCHANGED <<pc, cpp_syms>>
            ELSE IF cpp_syms[name].alias \notin DOMAIN cpp_syms
            THEN /\ pc' = "crashed"
                 /\ UNCHANGED cpp_syms
            ELSE /\ cpp_syms' = ResolveAlias(cpp_syms, name)
                 /\ UNCHANGED pc
    /\ UNCHANGED <<includes, func, man_syms, c_syms, links, pages, nread,
                   stderr, lost, out_c, out_cpp, again, loaded, first>>

----------------------------------------------------------------------------
(* Third pass: backlinks (lines 171-172) *)

RECURSIVE AddBacklinks(_, _, _)
AddBacklinks(lnks, syms, names) ==
    IF names = {} THEN lnks
    ELSE LET name == CHOOSE n \in names : TRUE
         IN  AddBacklinks(AddBacklink(lnks, syms[name].link, <<"C++", name>>),
                          syms, names \ {name})

\* the whole loop: the groups are read as sets, so its order leaves no trace
Backlinks ==
    /\ pc = "alias"
    /\ todo = {}
    /\ links' = AddBacklinks(links, cpp_syms, DOMAIN cpp_syms)
    /\ todo' = DOMAIN links'
    /\ pc' = "resolve"
    /\ UNCHANGED <<includes, func, man_syms, c_syms, cpp_syms, pages, nread,
                   stderr, lost, out_c, out_cpp, again, loaded, first>>

----------------------------------------------------------------------------
(* Headers of the detail pages (lines 175-189) *)

\* sym['header'] = header for the syms of a group.  A C sym that a later
\* node of the same name replaced in c_syms is still in the group but no
\* longer in the table: writing to it changes nothing that is read later.
SetHeader(syms, lang, group, link, header) ==
    [n \in DOMAIN syms |->
        IF <<lang, n>> \in group /\ syms[n].link = link
        THEN [syms[n] EXCEPT !.header = header]
        ELSE syms[n]]

\* one iteration over links.items(), in any order.  The page is what was
\* read under that link before, if it was; no page is stored under None.
ResolveLink ==
    /\ pc = "resolve"
    /\ \E link \in todo, body \in PageBodies :
         /\ link \in DOMAIN pages => body = pages[link]
         /\ link = None => body = NoPage
         /\ todo' = todo \ {link}
         /\ pages' = IF again > 0 THEN Put(pages, link, body) ELSE pages
         /\ IF ~body.exists
            THEN /\ stderr' = {Diag("missing html:", link)}
                 /\ UNCHANGED <<c_syms, cpp_syms>>
            ELSE IF body.token = ""
            THEN /\ stderr' = {Diag("no header found:", link)}
                 /\ UNCHANGED <<c_syms, cpp_syms>>
            ELSE /\ stderr' = {}
                 /\ c_syms' = SetHeader(c_syms, "C", links[link], link,
                                        StripLt(body.token))
                 /\ cpp_syms' = SetHeader(cpp_syms, "C++", links[link], link,
                                          StripLt(body.token))
    /\ UNCHANGED <<pc, includes, func, man_syms, links, nread, lost, out_c,
                   out_cpp, again, loaded, first>>

----------------------------------------------------------------------------
(* filter_syms (lines 193-218) *)

\* A value of a filtered table: a set of headers, or (dialect 2, after
\* decanonicalization) the canonical name a short name points at.
Hdrs(set) == [ptr |-> FALSE, hdrs |-> set, canonical_name |-> None]
Ptr(name) == [ptr |-> TRUE, hdrs |-> {}, canonical_name |-> name]

\* a faulty variant: the man pages are asked before the dialect-1 table
FilterOneManFirst(name, sym, ctab, filtered, mtab) ==
    LET short == SliceFrom(name, 5)
    IN  IF sym.header # ""
        THEN [how |-> "keep", hdrs |-> {sym.header}]
        ELSE IF /\ StartsWith(name, sStd)
                /\ short \in DOMAIN mtab
                /\ mtab[short] \cap ShadowKeys # {}
        THEN [how |-> "man", hdrs |-> ShadowSet(mtab[short])]
        ELSE IF /\ StartsWith(name, sStd)
                /\ short \in DOMAIN ctab
                /\ ~filtered
        THEN [how |-> "TypeError", hdrs |-> {}]
        ELSE IF /\ StartsWith(name, sStd)
                /\ short \in DOMAIN ctab
                /\ ctab[short].hdrs \cap ShadowKeys # {}
        THEN [how |-> "c", hdrs |-> ShadowSet(ctab[short].hdrs)]
        ELSE [how |-> "discard", hdrs |-> {}]

\* The body of filter_syms' loop for one symbol.  ctab is what the name
\* c_syms is bound to while the generator runs: still the table of sym
\* dicts during the dialect-1 call (filtered = FALSE), where `dict & set`
\* raises TypeError, and the filtered dialect-1 table during the second.
FilterOne(name, sym, ctab, filtered, mtab) ==
    LET short == SliceFrom(name, 5)
    IN  IF sym.header # ""
        THEN [how |-> "keep", hdrs |-> {sym.header}]
        ELSE IF /\ StartsWith(name, sStd)
                /\ short \in DOMAIN ctab
                /\ ~filtered
        THEN [how |-> "TypeError", hdrs |-> {}]
        ELSE IF /\ StartsWith(name, sStd)
                /\ short \in DOMAIN ctab
                /\ ctab[short].hdrs \cap ShadowKeys # {}
        THEN [how |-> "c", hdrs |-> ShadowSet(ctab[short].hdrs)]
        ELSE IF /\ StartsWith(name, sStd)
                /\ short \in DOMAIN mtab
                /\ mtab[short] \cap ShadowKeys # {}
        THEN [how |-> "man", hdrs |-> ShadowSet(mtab[short])]
        ELSE [how |-> "discard", hdrs |-> {}]

\* a faulty variant: a symbol reported as discarded is yielded all the same
FilterSymsKeepLost(lang, syms, ctab, filtered, mtab) ==
    LET one(n) == FilterOne(n, syms[n], ctab, filtered, mtab)
        kept   == {n \in DOMAIN syms : one(n).how # "TypeError"}
    IN  [table    |-> [n \in kept |-> Hdrs(one(n).hdrs)],
         salvaged |-> {Diag("salvaging", n) :
                         n \in {m \in DOMAIN syms : one(m).how \in {"c", "man"}}},
         lost     |-> {<<lang, n>> :
                         n \in {m \in DOMAIN syms : one(m).how = "discard"}},
         raised   |-> \E n \in DOMAIN syms : one(n).how = "TypeError"]

\* dict(filter_syms(lang, syms)): the new table, the diagnostics, and
\* whether the generator raised
FilterSyms(lang, syms, ctab, filtered, mtab) ==
    LET one(n) == FilterOne(n, syms[n], ctab, filtered, mtab)
        kept   == {n \in DOMAIN syms : one(n).how \notin {"discard", "TypeError"}}
    IN  [table    |-> [n \in kept |-> Hdrs(one(n).hdrs)],
         salvaged |-> {Diag("salvaging", n) :
                         n \in {m \in DOMAIN syms : one(m).how \in {"c", "man"}}},
         lost     |-> {<<lang, n>> :
                         n \in {m \in DOMAIN syms : one(m).how = "discard"}},
         raised   |-> \E n \in DOMAIN syms : one(n).how = "TypeError"]

\* what the steps of a run that raised may have written before: any part of
\* the diagnostics of the symbols visited earlier
Crash(r) ==
    /\ pc' = "crashed"
    /\ \E seen \in SUBSET r.lost, told \in SUBSET r.salvaged :
         /\ lost' = lost \cup seen
         /\ stderr' = told \cup {Diag("discard", x[2]) : x \in seen}
    /\ UNCHANGED <<includes, func, man_syms, c_syms, cpp_syms, links, pages,
                   todo, nread, out_c, out_cpp, again, loaded, first>>

\* line 217, once every link is visited
FilterC ==
    /\ pc = "resolve"
    /\ todo = {}
    /\ LET r == FilterSyms("C", c_syms, c_syms, FALSE, man_syms)
       IN  IF r.raised THEN Crash(r)
           ELSE /\ c_syms' = r.table
                /\ lost' = lost \cup r.lost
                /\ stderr' = r.salvaged \cup {Diag("discard", x[2]) : x \in r.lost}
                /\ pc' = "filter_cpp"
                /\ UNCHANGED <<includes, func, man_syms, cpp_syms, links,
                               pages, todo, nread, out_c, out_cpp, again, loaded, first>>

\* line 218; then the loop over man_syms.items() starts
FilterCpp ==
    /\ pc = "filter_cpp"
    /\ LET r == FilterSyms("C++", cpp_syms, c_syms, TRUE, man_syms)
       IN  /\ cpp_syms' = r.table
           /\ lost' = lost \cup r.lost
           /\ stderr' = r.salvaged \cup {Diag("discard", x[2]) : x \in r.lost}
    /\ pc' = "merge"
    /\ todo' = DOMAIN man_syms
    /\ UNCHANGED <<includes, func, man_syms, c_syms, links, pages, nread,
                   out_c, out_cpp, again, loaded, first>>

----------------------------------------------------------------------------
(* Man symbols into the two indexes (lines 225-229) *)

\* lines 226-227
MergeManC(ctab, name, hdrs) ==
    IF name \notin DOMAIN ctab THEN Put(ctab, name, Hdrs(hdrs)) ELSE ctab

\* a faulty variant: the qualified form is not looked for
MergeManCppNoStd(cpptab, name, hdrs) ==
    IF name \notin DOMAIN cpptab
    THEN Put(cpptab, name, Hdrs(ShadowSet(hdrs)))
    ELSE cpptab

\* lines 228-229
MergeManCpp(cpptab, name, hdrs) ==
    IF name \notin DOMAIN cpptab /\ (sStd \o name) \notin DOMAIN cpptab
    THEN Put(cpptab, name, Hdrs(ShadowSet(hdrs)))
    ELSE cpptab

\* one iteration over man_syms.items(), in any order
ManMergeStep ==
    /\ pc = "merge"
    /\ \E name \in todo :
         /\ todo' = todo \ {name}
         /\ c_syms' = MergeManC(c_syms, name, man_syms[name])
         /\ cpp_syms' = MergeManCpp(cpp_syms, name, man_syms[name])
    /\ stderr' = {}
    /\ UNCHANGED <<pc, includes, func, man_syms, links, pages, nread, lost,
                   out_c, out_cpp, again, loaded, first>>

----------------------------------------------------------------------------
(* Decanonicalization (lines 232-241) *)

\* line 234; None stands for the ValueError of a name without '::'
\* (a qualified name's short form may be '' too: then '' is the key)
HasColons(name) == RIndex(name, sColons) # -1
ShortName(name) == SliceFrom(name, RIndex(name, sColons) + 2)

\* a faulty variant: the short name is pointed at the qualified one anyway
DecanonOverwrite(cpptab, name) ==
    IF ~HasColons(name) THEN cpptab
    ELSE Put(cpptab, ShortName(name), Ptr(name))

\* lines 233-241 for one name of the copied item list
Decanon(cpptab, name) ==
    IF ~HasColons(name) THEN cpptab
    ELSE IF ShortName(name) \in DOMAIN cpptab THEN cpptab
    ELSE Put(cpptab, ShortName(name), Ptr(name))

DecanonReport(cpptab, name) ==
    IF HasColons(name) /\ ShortName(name) \in DOMAIN cpptab
    THEN {Diag("conflict", name)}
    ELSE {}

\* line 232: cpp_syms.items()[:] is copied once the man loop is over
DecanonStart ==
    /\ pc = "merge"
    /\ todo = {}
    /\ todo' = DOMAIN cpp_syms
    /\ pc' = "decanon"
    /\ stderr' = {}
    /\ UNCHANGED <<includes, func, man_syms, c_syms, cpp_syms, links, pages,
                   nread, lost, out_c, out_cpp, again, loaded, first>>

\* one iteration over the copied items, in any order
DecanonStep ==
    /\ pc = "decanon"
    /\ \E name \in todo :
         /\ todo' = todo \ {name}
         /\ cpp_syms' = Decanon(cpp_syms, name)
         /\ stderr' = DecanonReport(cpp_syms, name)
    /\ UNCHANGED <<pc, includes, func, man_syms, c_syms, links, pages, nread,
                   lost, out_c, out_cpp, again, loaded, first>>

----------------------------------------------------------------------------
(* make_happy_tree (lines 41-77) *)

\* The tree written: nil, or a node (entry, left, right).  An entry is
\* ("name" . canonical_name) or ("name" header ...), its headers in the
\* order " ".join(hdrs) found them in the set.
Nil == << >>
Entry(name, val, order) ==
    [name |-> name, ptr |-> val.ptr, canonical_name |-> val.canonical_name,
     hdrs |-> order]

\* a faulty variant: the list is used in the order it came in
SortByNameNot(syms) == syms

\* syms.sort(key=operator.itemgetter(0)): a stable sort by name
RECURSIVE SortByName(_)
SortByName(syms) ==
    IF syms = << >> THEN << >>
    ELSE LET n      == Len(syms)
             sorted == SortByName(SubSeq(syms, 1, n - 1))
             x      == syms[n]
             k      == Cardinality({i \in 1..(n - 1) :
                                      ~StrLess(x.name, sorted[i].name)})
         IN  SubSeq(sorted, 1, k) \o <<x>> \o SubSeq(sorted, k + 1, n - 1)

\* a faulty variant: the first entry of the range is the pivot
PivotFirst(start, end) == start

\* line 66 (Python 2: / on ints is floor division)
Pivot(start, end) == start + (end - start) \div 2

\* do_node(start, end) on the sorted list (0-based, end exclusive)
RECURSIVE DoNode(_, _, _)
DoNode(syms, start, end) ==
    IF start = end THEN Nil
    ELSE LET pivot == Pivot(start, end)
         IN  <<syms[pivot + 1],
               DoNode(syms, start, pivot),
               DoNode(syms, pivot + 1, end)>>

MakeHappyTree(syms) ==
    LET sorted == SortByName(syms)
    IN  DoNode(sorted, 0, Len(sorted))

\* syms.items() in the iteration order `names`, each header set in any of
\* the orders its iteration may take
RECURSIVE Items(_, _)
Items(tab, names) ==
    IF names = << >> THEN {<< >>}
    ELSE {<<Entry(Head(names), tab[Head(names)], order)>> \o rest :
            order \in Perms(tab[Head(names)].hdrs),
            rest \in Items(tab, Tail(names))}

\* lines 244-249 for includeme-index-c.el
EmitC ==
    /\ pc = "decanon"
    /\ todo = {}
    /\ \E names \in Perms(DOMAIN c_syms) :
         \E syms \in Items(c_syms, names) :
            out_c' = MakeHappyTree(syms)
    /\ pc' = "emit_cpp"
    /\ stderr' = {}
    /\ UNCHANGED <<includes, func, man_syms, c_syms, cpp_syms, links, pages,
                   todo, nread, lost, out_cpp, again, loaded, first>>

\* lines 244-249 for includeme-index-cpp.el
EmitCpp ==
    /\ pc = "emit_cpp"
    /\ \E names \in Perms(DOMAIN cpp_syms) :
         \E syms \in Items(cpp_syms, names) :
            out_cpp' = MakeHappyTree(syms)
    /\ pc' = "done"
    /\ UNCHANGED <<includes, func, man_syms, c_syms, cpp_syms, links, pages,
                   todo, nread, stderr, lost, out_c, again, loaded, first>>

----------------------------------------------------------------------------
(* The run *)

Next ==
    \/ ManLine
    \/ ManEndPage
    \/ ManDone
    \/ CLoadNode
    \/ CDone
    \/ CppLoadNode
    \/ CppDone
    \/ AliasStep
    \/ Backlinks
    \/ ResolveLink
    \/ FilterC
    \/ FilterCpp
    \/ ManMergeStep
    \/ DecanonStart
    \/ DecanonStep
    \/ EmitC
    \/ EmitCpp

Spec == Init /\ [][Next]_vars

----------------------------------------------------------------------------
(* main() invoked once more on the same inputs *)

\* The loops of lines 124-160 read ordered inputs (the pages as listed, the
\* nodes in document order), so the second invocation has the same tables
\* at line 162 as the first had; it goes on from there, reading the same
\* pages.  The final indexes of the first invocation, which its two files
\* serialize, are kept aside.
Rerun ==
    /\ pc = "done"
    /\ again > 0
    /\ again' = again - 1
    /\ first' = [kept |-> TRUE, c_syms |-> c_syms, cpp_syms |-> cpp_syms]
    /\ c_syms' = loaded.c_syms
    /\ cpp_syms' = loaded.cpp_syms
    /\ links' = loaded.links
    /\ todo' = DOMAIN loaded.cpp_syms
    /\ pc' = "alias"
    /\ lost' = {}
    /\ stderr' = {}
    /\ out_c' = NoFile
    /\ out_cpp' = NoFile
    /\ UNCHANGED <<includes, func, man_syms, pages, nread, loaded>>

InitTwice ==
    /\ pc = "man"
    /\ includes = {}
    /\ func = NoFact
    /\ man_syms = EmptyDict
    /\ c_syms = EmptyDict
    /\ cpp_syms = EmptyDict
    /\ links = EmptyDict
    /\ pages = EmptyDict
    /\ todo = {}
    /\ nread = 0
    /\ stderr = {}
    /\ lost = {}
    /\ out_c = NoFile
    /\ out_cpp = NoFile
    /\ again = 1
    /\ loaded = NoFile
    /\ first = NoArtifacts

NextTwice == Next \/ Rerun

SpecTwice == InitTwice /\ [][NextTwice]_vars

----------------------------------------------------------------------------
(* make_happy_tree on its own: any mapping with unique names *)

nFF == <<102, 102>>
nS  == <<115>>
nSt == <<115, 116>>
TreeIndex ==
    (nF :> Ptr(nStdF)) @@ (nFF :> Hdrs({"foo.h"})) @@ (nG :> Ptr(nStdG)) @@
    (nNsF :> Hdrs({"cmath"})) @@ (nS :> Hdrs({"math.h"})) @@
    (nSt :> Hdrs({"cmath", "foo.h"})) @@ (nStdF :> Hdrs({"cmath"})) @@
    (nStdG :> Hdrs({"cstdio"}))

InitTree ==
    /\ pc = "emit_cpp"
    /\ \E names \in SUBSET (DOMAIN TreeIndex) :
         /\ Cardinality(names) <= MaxTree
         /\ cpp_syms = [n \in names |-> TreeIndex[n]]
    /\ includes = {}
    /\ func = NoFact
    /\ man_syms = EmptyDict
    /\ c_syms = EmptyDict
    /\ links = EmptyDict
    /\ pages = EmptyDict
    /\ todo = {}
    /\ nread = 0
    /\ stderr = {}
    /\ lost = {}
    /\ out_c = NoFile
    /\ out_cpp = NoFile
    /\ again = 0
    /\ loaded = NoFile
    /\ first = NoArtifacts

SpecTree == InitTree /\ [][EmitCpp]_vars

----------------------------------------------------------------------------
(* Properties *)

\* the final indexes exist: the loops of lines 225-241 are over
Final == pc \in {"emit_cpp", "done"} \/ (pc = "decanon" /\ todo = {})

\* the modern equivalents of a header set, read off the shadows table
Modern(hdrs) ==
    {h \in hdrs : \A p \in shadows : p[1] # h}
    \cup {p[2] : p \in {q \in shadows : q[1] \in hdrs}}

HasHeaders(tab, n) == ~tab[n].ptr /\ tab[n].hdrs # {}

\* C1: in both final indexes every name maps to a non-empty header set, or
\* to a redirect whose target is a name of the same index that maps to a
\* non-empty header set (one hop, never a redirect to a redirect or to a
\* missing name).
C1_FinalIndexResolves ==
    Final =>
      \A tab \in {c_syms, cpp_syms} : \A n \in DOMAIN tab :
         \/ HasHeaders(tab, n)
         \/ /\ tab[n].ptr
            /\ tab[n].canonical_name \in DOMAIN tab
            /\ HasHeaders(tab, tab[n].canonical_name)

\* a finished run whose dialect-2 index holds a redirect, beside entries
\* from the catalog and from a man page
C1_Witness ==
    /\ pc = "done"
    /\ nF \in DOMAIN cpp_syms /\ cpp_syms[nF].ptr
    /\ nF \in DOMAIN c_syms
    /\ nF \in DOMAIN man_syms

RECURSIVE InOrder(_)
InOrder(tree) ==
    IF tree = Nil THEN << >>
    ELSE InOrder(tree[2]) \o <<tree[1]>> \o InOrder(tree[3])

SeqToSet(seq) == {seq[i] : i \in 1..Len(seq)}

\* C2: the in-order traversal of the tree written for a mapping visits every
\* entry of the mapping exactly once, in strictly ascending order of name.
C2_InOrderSorted ==
    pc = "done" =>
      LET seq == InOrder(out_cpp)
      IN  /\ Len(seq) = Cardinality(DOMAIN cpp_syms)
          /\ {seq[i].name : i \in 1..Len(seq)} = DOMAIN cpp_syms
          /\ \A i \in 1..Len(seq) :
               /\ seq[i].ptr = cpp_syms[seq[i].name].ptr
               /\ seq[i].canonical_name = cpp_syms[seq[i].name].canonical_name
               /\ SeqToSet(seq[i].hdrs) = cpp_syms[seq[i].name].hdrs
          /\ \A i \in 1..(Len(seq) - 1) : StrLess(seq[i].name, seq[i + 1].name)

\* a tree of five entries or more, among them names that are prefixes of
\* one another
C2_Witness ==
    /\ pc = "done"
    /\ Cardinality(DOMAIN cpp_syms) >= 5
    /\ {nS, nSt, nStdF} \subseteq DOMAIN cpp_syms
    /\ out_cpp # Nil

RECURSIVE Depth(_)
Depth(tree) ==
    IF tree = Nil THEN 0
    ELSE LET l == Depth(tree[2])
             r == Depth(tree[3])
         IN  1 + (IF l > r THEN l ELSE r)

\* the least d with 2^d >= m
CeilLog2(m) == CHOOSE d \in 0..m : 2^d >= m /\ \A e \in 0..(d - 1) : 2^e < m

\* C3: the tree written for n entries has depth ceil(log2(n + 1)), counted
\* in nodes; the empty mapping gives nil, of depth 0.
C3_Depth ==
    pc = "done" =>
      /\ Depth(out_cpp) = CeilLog2(Cardinality(DOMAIN cpp_syms) + 1)
      /\ (cpp_syms = EmptyDict => out_cpp = Nil)

\* four entries: a tree of depth 3 that is not full
C3_Witness ==
    /\ pc = "done"
    /\ Cardinality(DOMAIN cpp_syms) = 4
    /\ Depth(out_cpp) = 3

\* C4: a second run on the same inputs ends with the same final indexes as
\* the first, and so serializes the same entries, in whatever order the
\* symbol tables are iterated.  (The files are compared through the indexes
\* they serialize: the order of the headers within one entry is left out.)
C4_SameIndexes ==
    (pc = "done" /\ first.kept) =>
       /\ first.c_syms = c_syms
       /\ first.cpp_syms = cpp_syms

\* C5: a dialect-2 symbol std::X without a header of its own gets, if X is
\* in the dialect-1 table with a header set that meets the legacy headers,
\* that set with each legacy header replaced by its modern equivalent;
\* otherwise, if X is a man-page fact whose set meets the legacy headers,
\* the man-page set replaced the same way; and nothing later changes it.
C5_Salvage ==
    [][ /\ pc = "filter_cpp" =>
             \A name \in DOMAIN cpp_syms :
                (StartsWith(name, sStd) /\ cpp_syms[name].header = "") =>
                   LET X == SliceFrom(name, 5)
                   IN  IF X \in DOMAIN c_syms
                          /\ c_syms[X].hdrs \cap ShadowKeys # {}
                       THEN /\ name \in DOMAIN cpp_syms'
                            /\ cpp_syms'[name] = Hdrs(Modern(c_syms[X].hdrs))
                       ELSE IF X \in DOMAIN man_syms
                               /\ man_syms[X] \cap ShadowKeys # {}
                       THEN /\ name \in DOMAIN cpp_syms'
                            /\ cpp_syms'[name] = Hdrs(Modern(man_syms[X]))
                       ELSE TRUE
        /\ pc \in {"merge", "decanon", "emit_cpp"} =>
             \A name \in DOMAIN cpp_syms :
                StartsWith(name, sStd) =>
                   /\ name \in DOMAIN cpp_syms'
                   /\ cpp_syms'[name] = cpp_syms[name]
      ]_vars

\* std::f has just been salvaged to cmath from the dialect-1 entry f
\* (math.h), although the man pages have f too, with another set
C5_Witness ==
    /\ pc = "merge"
    /\ Diag("salvaging", nStdF) \in stderr
    /\ nF \in DOMAIN c_syms /\ c_syms[nF].hdrs = {"math.h"}
    /\ nF \in DOMAIN man_syms /\ man_syms[nF] = {"math.h", "foo.h"}
    /\ cpp_syms[nStdF] = Hdrs({"cmath"})

\* every entry of tab is in tab2 with the same value
Kept(tab, tab2) ==
    \A n \in DOMAIN tab : n \in DOMAIN tab2 /\ tab2[n] = tab[n]

\* C6: the man-page loop changes no entry that is in a table already, and
\* adds a man-page name N to the dialect-2 table only when neither N nor
\* std::N is a key, with the shadow-mapped set; a name with a header from
\* the catalog keeps that header to the end.
C6_Backfill ==
    [][ /\ pc = "merge" =>
             /\ Kept(c_syms, c_syms')
             /\ Kept(cpp_syms, cpp_syms')
             /\ \A n \in DOMAIN cpp_syms' \ DOMAIN cpp_syms :
                  /\ n \in DOMAIN man_syms
                  /\ (sStd \o n) \notin DOMAIN cpp_syms
                  /\ cpp_syms'[n] = Hdrs(Modern(man_syms[n]))
             /\ \A n \in DOMAIN c_syms' \ DOMAIN c_syms :
                  /\ n \in DOMAIN man_syms
                  /\ c_syms'[n] = Hdrs(man_syms[n])
        /\ (pc = "resolve" /\ pc' = "filter_cpp") =>
             \A n \in DOMAIN c_syms :
                c_syms[n].header # "" =>
                   n \in DOMAIN c_syms' /\ c_syms'[n] = Hdrs({c_syms[n].header})
        /\ pc = "filter_cpp" =>
             \A n \in DOMAIN cpp_syms :
                cpp_syms[n].header # "" =>
                   n \in DOMAIN cpp_syms'
                   /\ cpp_syms'[n] = Hdrs({cpp_syms[n].header})
        /\ pc \in {"decanon", "emit_cpp"} =>
             Kept(c_syms, c_syms') /\ Kept(cpp_syms, cpp_syms')
      ]_vars

\* the man loop is over: f is a man-page fact, the dialect-1 table kept its
\* own set for f, and f was not added to the dialect-2 table, which has
\* std::f
C6_Witness ==
    /\ pc = "merge" /\ todo = {}
    /\ nF \in DOMAIN man_syms
    /\ nF \in DOMAIN c_syms /\ c_syms[nF].hdrs # man_syms[nF]
    /\ nStdF \in DOMAIN cpp_syms
    /\ nF \notin DOMAIN cpp_syms

Table(lang) == IF lang = "C" THEN c_syms ELSE cpp_syms

\* C7 as stated: a symbol reported as discarded is not a name of its
\* dialect's final index.
C7_LostNeverInFinal ==
    pc = "done" => \A x \in lost : x[2] \notin DOMAIN Table(x[1])

\* C7, amended: a symbol reported as discarded is not in its dialect's table
\* when filtering ends; later its name is in the table only with the header
\* set of the man-page fact of that name (shadow-mapped in dialect 2) or, in
\* dialect 2, as a redirect to a qualified name that ends in it.
C7_LostOnlyByBackfillOrAlias ==
    /\ pc = "filter_cpp" =>
         \A x \in lost : x[1] = "C" => x[2] \notin DOMAIN c_syms
    /\ (pc = "merge" /\ todo = DOMAIN man_syms) =>
         \A x \in lost : x[2] \notin DOMAIN Table(x[1])
    /\ (pc = "merge" \/ pc = "decanon" \/ Final) =>
         \A x \in lost :
            LET n == x[2]
            IN  /\ (x[1] = "C" /\ n \in DOMAIN c_syms) =>
                       n \in DOMAIN man_syms /\ c_syms[n] = Hdrs(man_syms[n])
                /\ (x[1] = "C++" /\ n \in DOMAIN cpp_syms) =>
                       \/ /\ n \in DOMAIN man_syms
                          /\ cpp_syms[n] = Hdrs(Modern(man_syms[n]))
                       \/ /\ cpp_syms[n].ptr
                          /\ HasColons(cpp_syms[n].canonical_name)
                          /\ ShortName(cpp_syms[n].canonical_name) = n

\* a finished run in which f was discarded from both catalogs and is in both
\* final indexes again: from the man page in dialect 1, as a redirect in
\* dialect 2
C7_Witness ==
    /\ pc = "done"
    /\ {<<"C", nF>>, <<"C++", nF>>} \subseteq lost
    /\ nF \in DOMAIN c_syms
    /\ nF \in DOMAIN cpp_syms /\ cpp_syms[nF].ptr

\* C8: a fact for a name that has none yet is recorded; a fact for a name
\* that has one changes nothing and is reported exactly when its set differs
\* from the recorded one; a recorded set never changes.
C8_FirstFactWins ==
    [][ /\ (pc = "man" /\ nread' = nread + 1 /\ func' # NoFact) =>
             IF func'.name \in DOMAIN man_syms
             THEN /\ man_syms' = man_syms
                  /\ (func'.includes # man_syms[func'.name]) <=>
                        (stderr' = {Conflict(func'.name,
                                             man_syms[func'.name],
                                             func'.includes)})
                  /\ (func'.includes = man_syms[func'.name]) <=> (stderr' = {})
             ELSE /\ DOMAIN man_syms' = DOMAIN man_syms \cup {func'.name}
                  /\ man_syms'[func'.name] = func'.includes
                  /\ stderr' = {}
        /\ \A n \in DOMAIN man_syms :
             n \in DOMAIN man_syms' /\ man_syms'[n] = man_syms[n]
      ]_vars

\* f was recorded with math.h; a fact f with foo.h has just been reported
\* and has left the record as it was
C8_Witness ==
    /\ pc = "man"
    /\ func = [name |-> nF, includes |-> {"foo.h"}]
    /\ man_syms[nF] = {"math.h"}
    /\ stderr = {Conflict(nF, {"math.h"}, {"foo.h"})}

\* C9: a step of decanonicalization changes no entry the table has; for a
\* qualified name whose short form is a key it changes nothing and reports a
\* collision, and only for one whose short form is no key it adds the
\* redirect short -> qualified.
C9_Decanon ==
    [][ (pc = "decanon" /\ pc' = "decanon") =>
          /\ Kept(cpp_syms, cpp_syms')
          /\ \A name \in todo \ todo' :
               IF ~HasColons(name) THEN cpp_syms' = cpp_syms /\ stderr' = {}
               ELSE IF ShortName(name) \in DOMAIN cpp_syms
               THEN /\ cpp_syms' = cpp_syms
                    /\ stderr' = {Diag("conflict", name)}
               ELSE /\ DOMAIN cpp_syms' = DOMAIN cpp_syms \cup {ShortName(name)}
                    /\ cpp_syms'[ShortName(name)] = Ptr(name)
                    /\ stderr' = {}
      ]_vars

\* std::f has just collided with the direct entry f, which kept its header
C9_Witness ==
    /\ pc = "decanon"
    /\ stderr = {Diag("conflict", nStdF)}
    /\ nF \in DOMAIN cpp_syms
    /\ cpp_syms[nF] = Hdrs({"math.h"})
    /\ nStdF \in DOMAIN cpp_syms

\* C10: when the alias pass is over, every sym with an alias has the link
\* its target has then.
C10_AliasSharesLink ==
    (pc = "alias" /\ todo = {}) =>
       \A n \in DOMAIN cpp_syms :
          cpp_syms[n].alias # None =>
             cpp_syms[n].link = cpp_syms[cpp_syms[n].alias].link

====
